---- MODULE Spec2Model ----
(***************************************************************************)
(* Low-Energy-Meter: the charge/discharge sampling controller, the logger, *)
(* the channel between them and the process lifecycle                      *)
(* (src/src/low-energy-meter.c, src/src/mcp320x.c).                        *)
(*                                                                         *)
(* Three threads: main, the sampling thread and the logger thread, plus    *)
(* the SIGINT handler.  The monotonic clock is read by the sampling thread *)
(* only, so the time that passes is drawn where that thread reads the      *)
(* clock or sleeps.  ring.h / ring.c are not among the source files: the   *)
(* channel is modelled from its contract (a bounded blocking FIFO).        *)
(***************************************************************************)
EXTENDS Integers, Sequences, FiniteSets, TLC

(* ------------------------------ bounds ------------------------------- *)

\* Capacity of the channel (RING_SIZE of ring.h, whose value is not in the sources).
RING_SIZE == 2

\* How many records the model lets the sampling thread put.
MaxProduced == 3

\* How many clock ticks of TickNs the model lets pass after the start time.
MaxTicks == 5
MaxDeadlines == 3

\* The granularity with which the model lets time pass.
TickNs == 100 * 1000000

\* The monotonic clock, in nanoseconds, when the process starts (arbitrary origin).
StartNs == 8 * TickNs

\* The command line: -l, -u (as atoi returns them) and -f (Hz).
ThresholdArgs == {1, 2}
FrequencyArgs == {10}

\* Bytes the SPI transfer leaves in data[0], data[1], data[2].
BusData == { <<0, 0, 32>>, <<0, 0, 64>>, <<254, 0, 127>> }

(* --------------------------- program state --------------------------- *)

VARIABLES
    mpc,                \* main: position in main()
    argv,               \* the command line: [l, u, f, complete]
    exit_status,        \* "running", or how the process ended
    fout,               \* FILE *fout: "NULL", "open" or "closed"
    log,                \* the lines written to fout, in order
    is_spi_open,
    is_bcm_open,
    sigint_handler,     \* TRUE once signal(SIGINT, sig_int) succeeded
    sigpc,              \* sig_int: position in the handler
    gpio_output,        \* TRUE once setup_gpio configured both pins
    charge_level,       \* output level of charge_pin
    discharge_level,    \* output level of discharge_pin
    threshold_lower,
    threshold_upper,
    sampling_interval,
    now,                \* CLOCK_MONOTONIC
    spc,                \* sampling thread: position in sampling_thread_loop
    state,              \* enum State {charging, discharging}
    epoch,
    sample_v,           \* int16_t sample of the current iteration
    tnow,
    tsample,
    cancel_sampling,    \* a cancellation request is pending on sampling_thread
    lpc,                \* logger thread: position in logger_thread_loop
    entry,              \* struct ring_entry entry of the logger
    cancel_logger,      \* a cancellation request is pending on logger_thread
    the_ring,           \* the channel: the records put and not yet got
    produced,           \* history: every record ring_put accepted, in order
    relay_hist,         \* history: the sampling thread's last relay commands and settle waits
    iter,               \* history: the current iteration's sample, the state it was taken in,
                        \*          and Len(produced) when it was taken
    cd_switches,        \* history: the charging->discharging switches completed
    deadline_t0,        \* history: the baseline the deadlines in tsample were computed from
    deadline_k          \* history: how many deadlines were computed from that baseline

vars == << mpc, argv, exit_status, fout, log, is_spi_open, is_bcm_open,
           sigint_handler, sigpc, gpio_output, charge_level, discharge_level,
           threshold_lower, threshold_upper, sampling_interval, now,
           spc, state, epoch, sample_v, tnow, tsample, cancel_sampling,
           lpc, entry, cancel_logger, the_ring, produced, relay_hist, iter,
           cd_switches, deadline_t0, deadline_k >>

mainVars == << mpc, sigint_handler >>
resVars == << fout, is_spi_open, is_bcm_open >>
cfgVars == << argv, threshold_lower, threshold_upper, sampling_interval >>
pinVars == << gpio_output, charge_level, discharge_level >>
samplerVars == << spc, state, epoch, sample_v, tnow, tsample, relay_hist, iter,
                  cd_switches >>
deadlineVars == << deadline_t0, deadline_k >>
loggerVars == << lpc, entry, log >>
cancelVars == << cancel_sampling, cancel_logger, sigpc >>
ringVars == << the_ring, produced >>

(* ------------------------------ time --------------------------------- *)

NSEC_PER_SEC == 1000000000

timespec(sec, nsec) == [tv_sec |-> sec, tv_nsec |-> nsec]

\* The timespec the clock shows ns nanoseconds after its origin.
ClockAt(ns) == timespec(ns \div NSEC_PER_SEC, ns % NSEC_PER_SEC)

\* ins = (uint64_t) (1000000000.0/frequency + 0.5), for a frequency that is a
\* positive whole number of Hz; then the split into seconds and nanoseconds.
frequency_to_interval(frequency) ==
    LET ins == (2 * NSEC_PER_SEC + frequency) \div (2 * frequency)
    IN  timespec(ins \div NSEC_PER_SEC, ins % NSEC_PER_SEC)

\* Mutant: the carry is missed when the nanoseconds add up to exactly one second.
next_sampling_time_LateCarry(tlast, interval) ==
    LET sec  == tlast.tv_sec + interval.tv_sec
        nsec == tlast.tv_nsec + interval.tv_nsec
    IN  IF nsec > NSEC_PER_SEC
        THEN timespec(sec + 1, nsec - NSEC_PER_SEC)
        ELSE timespec(sec, nsec)

next_sampling_time(tlast, interval) ==
    LET sec  == tlast.tv_sec + interval.tv_sec
        nsec == tlast.tv_nsec + interval.tv_nsec
    IN  IF nsec >= NSEC_PER_SEC
        THEN timespec(sec + 1, nsec - NSEC_PER_SEC)
        ELSE timespec(sec, nsec)

\* The values stay far below 2^64 within the bounds, so the uint64_t never wraps.
to_nanosec(t) == NSEC_PER_SEC * t.tv_sec + t.tv_nsec

\* twait of the settle waits: tv_sec = 0, tv_nsec = 100000000.
SETTLE_NSEC == 100000000
twait == timespec(0, SETTLE_NSEC)

\* a is not later than b.
TimeLeq(a, b) ==
    \/ a.tv_sec < b.tv_sec
    \/ a.tv_sec = b.tv_sec /\ a.tv_nsec <= b.tv_nsec

TimeMax(a, b) == IF TimeLeq(a, b) THEN b ELSE a

\* The time that passes, beyond what a call asks for, before the thread goes on.
Elapsed == {timespec(0, 0), timespec(0, TickNs)}

InHorizon(t) == TimeLeq(t, ClockAt(StartNs + MaxTicks * TickNs))

(* ---------------------------- analog reader -------------------------- *)

\* sample(): the 12 bit value assembled from the three bytes received.
sample(data) ==
    (data[1] % 2) * 2048 + data[2] * 8 + ((data[3] \div 32) % 8)

\* Channels CH0 .. CH7 are 0 .. 7; any other argument takes the default branch.
get_sample_singleended(adc_channel, data) ==
    IF adc_channel \in 0..7 THEN sample(data) ELSE -1

\* What get_sample_singleended can return to the sampling loop: a 12 bit value, or
\* -1, the value it documents for an error.  adc_channel is CH0 (0), for which
\* only 12 bit values come back; the loop tests for -1 all the same, and that
\* branch is exercised with the value the default branch (argument 8) returns.
Readings ==
    { get_sample_singleended(ch, d) : ch \in {0, 8}, d \in BusData }

(* ------------------------------ records ------------------------------ *)

ring_entry(t, e, v) == [timestamp |-> t, epoch |-> e, value |-> v]

NoEntry == ring_entry(0, 0, 0)

(* ------------------------------- Init -------------------------------- *)

Init ==
    /\ mpc = "parse"
    /\ argv \in [l : ThresholdArgs, u : ThresholdArgs, f : FrequencyArgs,
                 complete : BOOLEAN]
    /\ exit_status = "running"
    /\ fout = "NULL"
    /\ log = << >>
    /\ is_spi_open = FALSE
    /\ is_bcm_open = FALSE
    /\ sigint_handler = FALSE
    /\ sigpc = "idle"
    /\ gpio_output = FALSE
    /\ charge_level \in {0, 1}
    /\ discharge_level \in {0, 1}
    /\ threshold_lower = 0
    /\ threshold_upper = 0
    /\ sampling_interval = timespec(0, 0)
    /\ now = ClockAt(StartNs)
    /\ spc = "not_created"
    /\ state = "charging"
    /\ epoch = 0
    /\ sample_v = 0
    /\ tnow = timespec(0, 0)
    /\ tsample = timespec(0, 0)
    /\ cancel_sampling = FALSE
    /\ lpc = "not_created"
    /\ entry = NoEntry
    /\ cancel_logger = FALSE
    /\ the_ring = << >>
    /\ produced = << >>
    /\ relay_hist = << >>
    /\ iter = [st |-> "charging", val |-> 0, base |-> 0, taken |-> FALSE]
    /\ cd_switches = 0
    /\ deadline_t0 = timespec(0, 0)
    /\ deadline_k = 0

Running == exit_status = "running"

(* ------------------------------- die --------------------------------- *)

\* die(status): close what is open, then exit.  The flags keep their values.
Die(status) ==
    /\ fout' = IF fout = "open" THEN "closed" ELSE fout
    /\ exit_status' = status
    /\ UNCHANGED << is_spi_open, is_bcm_open >>

(* ------------------------------- main -------------------------------- *)

\* getopt loop and the check of the required arguments; then the conversions.
M_Parse ==
    /\ Running /\ mpc = "parse"
    /\ IF argv.complete
       THEN /\ threshold_lower' = argv.l % 65536
            /\ threshold_upper' = argv.u % 65536
            /\ sampling_interval' = frequency_to_interval(argv.f)
            /\ mpc' = "bcm_init"
            /\ UNCHANGED << exit_status, resVars >>
       ELSE /\ Die("failure")
            /\ UNCHANGED << mpc, threshold_lower, threshold_upper, sampling_interval >>
    /\ UNCHANGED << argv, deadlineVars, sigint_handler, pinVars, now, samplerVars,
                    loggerVars, cancelVars, ringVars >>

\* bcm2835_init(): 0 on failure.
M_BcmInit ==
    /\ Running /\ mpc = "bcm_init"
    /\ \/ /\ is_bcm_open' = TRUE
          /\ mpc' = "spi"
          /\ UNCHANGED << exit_status, fout, is_spi_open >>
       \/ /\ Die("failure")
          /\ UNCHANGED mpc
    /\ UNCHANGED << sigint_handler, cfgVars, deadlineVars, pinVars, now, samplerVars, loggerVars,
                    cancelVars, ringVars >>

\* bcm2835_spi_begin() and the SPI settings.
M_SpiBegin ==
    /\ Running /\ mpc = "spi"
    /\ is_spi_open' = TRUE
    /\ mpc' = "gpio"
    /\ UNCHANGED << exit_status, fout, is_bcm_open, sigint_handler, cfgVars, deadlineVars, pinVars,
                    now, samplerVars, loggerVars, cancelVars, ringVars >>

\* setup_gpio(): both pins are outputs and low.
setup_gpio ==
    /\ gpio_output' = TRUE
    /\ charge_level' = 0
    /\ discharge_level' = 0

M_SetupGpio ==
    /\ Running /\ mpc = "gpio"
    /\ setup_gpio
    /\ mpc' = "fopen"
    /\ UNCHANGED << exit_status, resVars, sigint_handler, cfgVars, deadlineVars, now, samplerVars,
                    loggerVars, cancelVars, ringVars >>

\* fout = fopen(logfile_arg, "w"): truncates the file.
M_OpenLog ==
    /\ Running /\ mpc = "fopen"
    /\ \/ /\ fout' = "open"
          /\ mpc' = "mlock"
          /\ UNCHANGED << exit_status, is_spi_open, is_bcm_open >>
       \/ /\ Die("failure")
          /\ UNCHANGED mpc
    /\ UNCHANGED << sigint_handler, cfgVars, deadlineVars, pinVars, now, samplerVars, loggerVars,
                    cancelVars, ringVars >>

\* ring_init(&the_ring), mlockall(), stack_prefault().
M_RingInitLock ==
    /\ Running /\ mpc = "mlock"
    /\ the_ring' = << >>
    /\ \/ /\ mpc' = "create_sampling"
          /\ UNCHANGED << exit_status, resVars >>
       \/ /\ Die("failure")
          /\ UNCHANGED mpc
    /\ UNCHANGED << sigint_handler, cfgVars, deadlineVars, pinVars, now, samplerVars, loggerVars,
                    cancelVars, produced >>

M_CreateSampling ==
    /\ Running /\ mpc = "create_sampling"
    /\ \/ /\ spc' = "sched"
          /\ mpc' = "create_logger"
          /\ UNCHANGED << exit_status, resVars >>
       \/ /\ Die("failure")
          /\ UNCHANGED << mpc, spc >>
    /\ UNCHANGED << sigint_handler, cfgVars, deadlineVars, pinVars, now, state, epoch, cd_switches, sample_v, tnow,
                    tsample, relay_hist, iter, loggerVars, cancelVars, ringVars >>

M_CreateLogger ==
    /\ Running /\ mpc = "create_logger"
    /\ \/ /\ lpc' = "sched"
          /\ mpc' = "signal"
          /\ UNCHANGED << exit_status, resVars >>
       \/ /\ Die("failure")
          /\ UNCHANGED << mpc, lpc >>
    /\ UNCHANGED << sigint_handler, cfgVars, deadlineVars, pinVars, now, samplerVars, entry, log,
                    cancelVars, ringVars >>

\* signal(SIGINT, sig_int)
M_Signal ==
    /\ Running /\ mpc = "signal"
    /\ \/ /\ sigint_handler' = TRUE
          /\ mpc' = "join_logger"
          /\ UNCHANGED << exit_status, resVars >>
       \/ /\ Die("failure")
          /\ UNCHANGED << mpc, sigint_handler >>
    /\ UNCHANGED << cfgVars, deadlineVars, pinVars, now, samplerVars, loggerVars, cancelVars, ringVars >>

\* pthread_join(logger_thread, NULL) returns once the thread has terminated.
M_JoinLogger ==
    /\ Running /\ mpc = "join_logger"
    /\ lpc = "terminated"
    /\ mpc' = "join_sampling"
    /\ UNCHANGED << exit_status, resVars, sigint_handler, cfgVars, deadlineVars, pinVars, now,
                    samplerVars, loggerVars, cancelVars, ringVars >>

\* Mutant: main does not wait for the sampling thread before it tears down.
M_JoinSampling_NoWait ==
    /\ Running /\ mpc = "join_sampling"
    /\ mpc' = "die"
    /\ UNCHANGED << exit_status, resVars, sigint_handler, cfgVars, deadlineVars, pinVars, now,
                    samplerVars, loggerVars, cancelVars, ringVars >>

\* pthread_join(sampling_thread, NULL) returns once the thread has terminated.
M_JoinSampling ==
    /\ Running /\ mpc = "join_sampling"
    /\ spc = "terminated"
    /\ mpc' = "die"
    /\ UNCHANGED << exit_status, resVars, sigint_handler, cfgVars, deadlineVars, pinVars, now,
                    samplerVars, loggerVars, cancelVars, ringVars >>

\* Mutant: both relays are opened before die(0).
M_Die_OpensRelays ==
    /\ Running /\ mpc = "die"
    /\ Die("success")
    /\ charge_level' = 0 /\ discharge_level' = 0
    /\ UNCHANGED << mainVars, cfgVars, deadlineVars, gpio_output, now, samplerVars,
                    loggerVars, cancelVars, ringVars >>

\* die(0)
M_Die ==
    /\ Running /\ mpc = "die"
    /\ Die("success")
    /\ UNCHANGED << mainVars, cfgVars, deadlineVars, pinVars, now, samplerVars, loggerVars,
                    cancelVars, ringVars >>

(* ------------------------------ relays ------------------------------- *)

\* bcm2835_gpio_set(pin) / bcm2835_gpio_clr(pin): the pin's output level.
gpio_write(pin, level) ==
    /\ charge_level' = IF pin = "charge_pin" THEN level ELSE charge_level
    /\ discharge_level' = IF pin = "discharge_pin" THEN level ELSE discharge_level
    /\ UNCHANGED gpio_output

\* Mutant: the charging->discharging switch opens the wrong relay.
CD_OpenPin_Wrong == "discharge_pin"

\* The pin each relay command of sampling_thread_loop names.
InitOpenPin == "discharge_pin"
InitClosePin == "charge_pin"
CD_OpenPin == "charge_pin"
CD_ClosePin == "discharge_pin"
DC_OpenPin == "discharge_pin"
\* Mutant: the switch back to charging closes the discharge relay again.
DC_ClosePin_Wrong == "discharge_pin"

DC_ClosePin == "charge_pin"

\* History of the sampling thread's relay commands and settle waits: the last three.
Push(h, e) ==
    LET s == Append(h, e) IN IF Len(s) > 3 THEN Tail(s) ELSE s

Cmd(op, pin) == << op, pin >>
SettleWait == << "wait", "twait" >>

(* ------------------------------ channel ------------------------------ *)

\* ring_put blocks while the channel is full, ring_get while it is empty.
ring_can_put(r) == Len(r) < RING_SIZE
ring_put(r, e) == Append(r, e)
ring_can_get(r) == Len(r) > 0
ring_get_entry(r) == Head(r)
ring_get_rest(r) == Tail(r)

(* -------------------------- sampling thread -------------------------- *)

\* t + d, normalized.
TimeAdd(t, d) ==
    LET sec  == t.tv_sec + d.tv_sec
        nsec == t.tv_nsec + d.tv_nsec
    IN  timespec(sec + nsec \div NSEC_PER_SEC, nsec % NSEC_PER_SEC)

\* sched_setscheduler(0, SCHED_FIFO, ...): on failure die(-1), from this thread.
S_Sched ==
    /\ Running /\ spc = "sched"
    /\ \/ /\ spc' = "init_open"
          /\ UNCHANGED << exit_status, resVars >>
       \/ /\ Die("failure")
          /\ UNCHANGED spc
    /\ UNCHANGED << mainVars, cfgVars, deadlineVars, pinVars, now, state, epoch, cd_switches, sample_v, tnow, tsample,
                    relay_hist, iter, loggerVars, cancelVars, ringVars >>

\* state = charging; bcm2835_gpio_clr(discharge_pin)
S_InitOpen ==
    /\ Running /\ spc = "init_open"
    /\ state' = "charging"
    /\ gpio_write(InitOpenPin, 0)
    /\ relay_hist' = Push(relay_hist, Cmd("clr", InitOpenPin))
    /\ spc' = "init_wait"
    /\ UNCHANGED << mainVars, exit_status, resVars, cfgVars, deadlineVars, now, epoch, cd_switches, sample_v, tnow,
                    tsample, iter, loggerVars, cancelVars, ringVars >>

\* The runs explored are cut where a sleep of the discharging state would lead to
\* one record more than MaxProduced; cut in a sleep, the thread can still be
\* cancelled there.
RecordsInBound == state = "discharging" => Len(produced) < MaxProduced

\* clock_nanosleep(CLOCK_MONOTONIC, 0, &twait, NULL) returns: a cancellation point,
\* so with a request pending the thread does not come back from it.
SettleWaitDone(from, to) ==
    /\ Running /\ spc = from
    /\ ~cancel_sampling
    /\ RecordsInBound
    /\ \E d \in Elapsed :
          /\ now' = TimeAdd(TimeAdd(now, twait), d)
          /\ InHorizon(now')
    /\ relay_hist' = Push(relay_hist, SettleWait)
    /\ spc' = to
    /\ UNCHANGED << mainVars, exit_status, resVars, cfgVars, deadlineVars, pinVars, state, epoch, cd_switches,
                    sample_v, tnow, tsample, iter, loggerVars, cancelVars, ringVars >>

S_InitWait == SettleWaitDone("init_wait", "init_close")

\* bcm2835_gpio_set(charge_pin); epoch = 0; clock_gettime(CLOCK_MONOTONIC, &tsample)
S_InitClose ==
    /\ Running /\ spc = "init_close"
    /\ gpio_write(InitClosePin, 1)
    /\ relay_hist' = Push(relay_hist, Cmd("set", InitClosePin))
    /\ epoch' = 0
    /\ tsample' = now
    /\ deadline_t0' = now /\ deadline_k' = 0
    /\ spc' = "sample"
    /\ UNCHANGED << mainVars, exit_status, resVars, cfgVars, now, state, cd_switches,
                    sample_v, tnow, iter, loggerVars, cancelVars, ringVars >>

\* sample = get_sample_singleended(adc_channel); clock_gettime(CLOCK_MONOTONIC, &tnow)
S_TakeSample ==
    /\ Running /\ spc = "sample"
    /\ \E v \in Readings :
          /\ sample_v' = v
          /\ iter' = [st |-> state, val |-> v, base |-> Len(produced), taken |-> TRUE]
    /\ tnow' = now
    /\ UNCHANGED now
    /\ spc' = "decide"
    /\ UNCHANGED << mainVars, exit_status, resVars, cfgVars, deadlineVars, pinVars, state, epoch, cd_switches,
                    tsample, relay_hist, loggerVars, cancelVars, ringVars >>

\* Mutant: the error value is treated like any other sample.
S_SampleError_FallsThrough ==
    /\ Running /\ spc = "decide"
    /\ sample_v = -1
    /\ spc' = IF state = "discharging" THEN "put" ELSE "sample"
    /\ UNCHANGED << mainVars, exit_status, resVars, cfgVars, deadlineVars, pinVars, now, state, epoch, cd_switches,
                    sample_v, tnow, tsample, relay_hist, iter, loggerVars, cancelVars,
                    ringVars >>

\* if (sample == -1) fprintf(stderr, ...): nothing else, and back to the loop head.
S_SampleError ==
    /\ Running /\ spc = "decide"
    /\ sample_v = -1
    /\ spc' = "sample"
    /\ UNCHANGED << mainVars, exit_status, resVars, cfgVars, deadlineVars, pinVars, now, state, epoch, cd_switches,
                    sample_v, tnow, tsample, relay_hist, iter, loggerVars, cancelVars,
                    ringVars >>

\* Mutant: a sample equal to the upper threshold does not count as charged.
ChargedTest_Strict(s) == s > threshold_upper

\* sample >= threshold_upper
ChargedTest(s) == s >= threshold_upper

\* sample <= threshold_lower
DischargedTest(s) == s <= threshold_lower

\* else if (state == charging): switch to discharging (state, open the charge
\* relay) or compute the next deadline.
S_Charging ==
    /\ Running /\ spc = "decide"
    /\ sample_v # -1 /\ state = "charging"
    /\ IF ChargedTest(sample_v)
       THEN /\ state' = "discharging"
            /\ gpio_write(CD_OpenPin, 0)
            /\ relay_hist' = Push(relay_hist, Cmd("clr", CD_OpenPin))
            /\ spc' = "cd_wait"
            /\ UNCHANGED << tsample, deadlineVars >>
       ELSE /\ tsample' = next_sampling_time(tsample, sampling_interval)
            /\ deadline_k' = deadline_k + 1
            /\ spc' = "sleep"
            /\ UNCHANGED << state, pinVars, relay_hist, deadline_t0 >>
    /\ UNCHANGED << mainVars, exit_status, resVars, cfgVars, now, epoch, cd_switches,
                    sample_v, tnow, iter, loggerVars, cancelVars, ringVars >>

\* Mutant: the discharge relay is closed without the settle wait.
S_CD_Wait_Skipped ==
    /\ Running /\ spc = "cd_wait"
    /\ spc' = "cd_close"
    /\ UNCHANGED << mainVars, exit_status, resVars, cfgVars, deadlineVars, pinVars, now, state, epoch, cd_switches,
                    sample_v, tnow, tsample, relay_hist, iter, loggerVars, cancelVars,
                    ringVars >>

\* Mutant: the settle wait is a polling loop that re-reads the sample.
S_CD_Wait_Resamples ==
    /\ Running /\ spc = "cd_wait"
    /\ ~cancel_sampling
    /\ RecordsInBound
    /\ \E d \in Elapsed :
          /\ now' = TimeAdd(TimeAdd(now, twait), d)
          /\ InHorizon(now')
    /\ \E v \in Readings :
          /\ sample_v' = v
          /\ iter' = [st |-> state, val |-> v, base |-> Len(produced), taken |-> TRUE]
    /\ relay_hist' = Push(relay_hist, SettleWait)
    /\ spc' = "cd_close"
    /\ UNCHANGED << mainVars, exit_status, resVars, cfgVars, deadlineVars, pinVars, state,
                    epoch, cd_switches, tnow, tsample, loggerVars, cancelVars, ringVars >>

S_CD_Wait == SettleWaitDone("cd_wait", "cd_close")

\* Mutant: the switch to discharging keeps the old deadline baseline.
S_CD_Close_NoReset ==
    /\ Running /\ spc = "cd_close"
    /\ gpio_write(CD_ClosePin, 1)
    /\ relay_hist' = Push(relay_hist, Cmd("set", CD_ClosePin))
    /\ epoch' = epoch + 1
    /\ cd_switches' = cd_switches + 1
    /\ spc' = "sample"
    /\ UNCHANGED << mainVars, exit_status, resVars, cfgVars, deadlineVars, now, state,
                    sample_v, tnow, tsample, iter, loggerVars, cancelVars, ringVars >>

\* bcm2835_gpio_set(discharge_pin); epoch++; clock_gettime(CLOCK_MONOTONIC, &tsample)
S_CD_Close ==
    /\ Running /\ spc = "cd_close"
    /\ gpio_write(CD_ClosePin, 1)
    /\ relay_hist' = Push(relay_hist, Cmd("set", CD_ClosePin))
    /\ epoch' = epoch + 1
    /\ cd_switches' = cd_switches + 1
    /\ tsample' = now
    /\ deadline_t0' = now /\ deadline_k' = 0
    /\ spc' = "sample"
    /\ UNCHANGED << mainVars, exit_status, resVars, cfgVars, now, state, sample_v, tnow,
                    iter, loggerVars, cancelVars, ringVars >>

\* Mutant: the record is built and put whatever the state is.
S_Discharging_AnyState ==
    /\ Running /\ spc = "decide"
    /\ sample_v # -1
    /\ spc' = "put"
    /\ UNCHANGED << mainVars, exit_status, resVars, cfgVars, deadlineVars, pinVars, now, state, epoch, cd_switches,
                    sample_v, tnow, tsample, relay_hist, iter, loggerVars, cancelVars,
                    ringVars >>

\* else if (state == discharging): the record is built, ring_put comes next.
S_Discharging ==
    /\ Running /\ spc = "decide"
    /\ sample_v # -1 /\ state = "discharging"
    /\ spc' = "put"
    /\ UNCHANGED << mainVars, exit_status, resVars, cfgVars, deadlineVars, pinVars, now, state, epoch, cd_switches,
                    sample_v, tnow, tsample, relay_hist, iter, loggerVars, cancelVars,
                    ringVars >>

\* Mutant: the record carries the number of the epoch before the current one.
SampleEntry_EpochBefore == ring_entry(to_nanosec(tnow), epoch - 1, sample_v)

\* The record of the current sample.
SampleEntry == ring_entry(to_nanosec(tnow), epoch, sample_v)

\* Mutant: the lower threshold is tested before the record is put, and the sample
\* that triggers the switch is not recorded.
S_Put_TestFirst ==
    /\ Running /\ spc = "put"
    /\ ring_can_put(the_ring)
    /\ IF DischargedTest(sample_v)
       THEN /\ state' = "charging"
            /\ gpio_write(DC_OpenPin, 0)
            /\ relay_hist' = Push(relay_hist, Cmd("clr", DC_OpenPin))
            /\ spc' = "dc_wait"
            /\ UNCHANGED << tsample, deadlineVars, ringVars >>
       ELSE /\ the_ring' = ring_put(the_ring, SampleEntry)
            /\ produced' = Append(produced, SampleEntry)
            /\ tsample' = next_sampling_time(tsample, sampling_interval)
            /\ deadline_k' = deadline_k + 1
            /\ spc' = "sleep"
            /\ UNCHANGED << state, pinVars, relay_hist, deadline_t0 >>
    /\ UNCHANGED << mainVars, exit_status, resVars, cfgVars, now, epoch, cd_switches,
                    sample_v, tnow, iter, loggerVars, cancelVars >>

\* ring_put(&the_ring, &entry) returns; then switch to charging (state, open the
\* discharge relay) or compute the next deadline.
S_Put ==
    /\ Running /\ spc = "put"
    /\ ring_can_put(the_ring)
    /\ the_ring' = ring_put(the_ring, SampleEntry)
    /\ produced' = Append(produced, SampleEntry)
    /\ IF DischargedTest(sample_v)
       THEN /\ state' = "charging"
            /\ gpio_write(DC_OpenPin, 0)
            /\ relay_hist' = Push(relay_hist, Cmd("clr", DC_OpenPin))
            /\ spc' = "dc_wait"
            /\ UNCHANGED << tsample, deadlineVars >>
       ELSE /\ tsample' = next_sampling_time(tsample, sampling_interval)
            /\ deadline_k' = deadline_k + 1
            /\ spc' = "sleep"
            /\ UNCHANGED << state, pinVars, relay_hist, deadline_t0 >>
    /\ UNCHANGED << mainVars, exit_status, resVars, cfgVars, now, epoch, cd_switches,
                    sample_v, tnow, iter, loggerVars, cancelVars >>

S_DC_Wait == SettleWaitDone("dc_wait", "dc_close")

\* Mutant: the epoch is advanced at the switch back to charging too.
S_DC_Close_AdvancesEpoch ==
    /\ Running /\ spc = "dc_close"
    /\ gpio_write(DC_ClosePin, 1)
    /\ relay_hist' = Push(relay_hist, Cmd("set", DC_ClosePin))
    /\ epoch' = epoch + 1
    /\ spc' = "sample"
    /\ UNCHANGED << mainVars, exit_status, resVars, cfgVars, deadlineVars, now, state,
                    cd_switches, sample_v, tnow, tsample, iter, loggerVars, cancelVars,
                    ringVars >>

\* bcm2835_gpio_set(charge_pin)
S_DC_Close ==
    /\ Running /\ spc = "dc_close"
    /\ gpio_write(DC_ClosePin, 1)
    /\ relay_hist' = Push(relay_hist, Cmd("set", DC_ClosePin))
    /\ spc' = "sample"
    /\ UNCHANGED << mainVars, exit_status, resVars, cfgVars, deadlineVars, now, state, epoch, cd_switches, sample_v,
                    tnow, tsample, iter, loggerVars, cancelVars, ringVars >>

\* clock_nanosleep(CLOCK_MONOTONIC, TIMER_ABSTIME, &tsample, NULL) returns, at the
\* deadline or later (at once when the deadline has passed): a cancellation point.
S_Sleep ==
    /\ Running /\ spc = "sleep"
    /\ ~cancel_sampling
    /\ RecordsInBound
    /\ \E d \in Elapsed :
          /\ now' = TimeAdd(TimeMax(now, tsample), d)
          /\ InHorizon(now')
    /\ spc' = "sample"
    /\ UNCHANGED << mainVars, exit_status, resVars, cfgVars, deadlineVars, pinVars, state, epoch, cd_switches,
                    sample_v, tnow, tsample, relay_hist, iter, loggerVars, cancelVars,
                    ringVars >>

\* Where a pending cancellation request acts on the sampling thread: in
\* clock_nanosleep, in ring_put while it waits for room, and possibly in
\* fprintf(stderr, ...).
SamplingCancellationPoint ==
    \/ spc \in {"init_wait", "cd_wait", "dc_wait", "sleep"}
    \/ spc = "put" /\ ~ring_can_put(the_ring)
    \/ spc = "decide" /\ sample_v = -1

S_Cancelled ==
    /\ Running /\ cancel_sampling
    /\ SamplingCancellationPoint
    /\ spc' = "terminated"
    /\ UNCHANGED << mainVars, exit_status, resVars, cfgVars, deadlineVars, pinVars, now, state, epoch, cd_switches,
                    sample_v, tnow, tsample, relay_hist, iter, loggerVars, cancelVars,
                    ringVars >>

(* --------------------------- logger thread --------------------------- *)

\* sched_setscheduler(0, SCHED_FIFO, ...) with task_priority-1: on failure die(-1).
L_Sched ==
    /\ Running /\ lpc = "sched"
    /\ \/ /\ lpc' = "get"
          /\ UNCHANGED << exit_status, resVars >>
       \/ /\ Die("failure")
          /\ UNCHANGED lpc
    /\ UNCHANGED << mainVars, cfgVars, deadlineVars, pinVars, now, samplerVars, entry, log, cancelVars,
                    ringVars >>

\* ring_get(&the_ring, &entry) returns
L_Get ==
    /\ Running /\ lpc = "get"
    /\ ring_can_get(the_ring)
    /\ entry' = ring_get_entry(the_ring)
    /\ the_ring' = ring_get_rest(the_ring)
    /\ lpc' = "log"
    /\ UNCHANGED << mainVars, exit_status, resVars, cfgVars, deadlineVars, pinVars, now, samplerVars,
                    log, cancelVars, produced >>

\* log_sample: fprintf(fout, "%llu,%llu,%d\n", t, epoch, sample)
log_sample(sample_, t, epoch_) == << t, epoch_, sample_ >>

\* Mutant: the logger writes the record and stays where it is, so it writes it again.
L_Log_Again ==
    /\ Running /\ lpc = "log"
    /\ Len(log) <= MaxProduced
    /\ log' = Append(log, log_sample(entry.value, entry.timestamp, entry.epoch))
    /\ UNCHANGED << mainVars, exit_status, resVars, cfgVars, deadlineVars, pinVars, now, samplerVars,
                    lpc, entry, cancelVars, ringVars >>

L_Log ==
    /\ Running /\ lpc = "log"
    /\ log' = Append(log, log_sample(entry.value, entry.timestamp, entry.epoch))
    /\ lpc' = "get"
    /\ UNCHANGED << mainVars, exit_status, resVars, cfgVars, deadlineVars, pinVars, now, samplerVars,
                    entry, cancelVars, ringVars >>

\* Where a pending cancellation request acts on the logger thread: in ring_get
\* while it waits for a record, and possibly in fprintf(fout, ...).
LoggerCancellationPoint ==
    \/ lpc = "get" /\ ~ring_can_get(the_ring)
    \/ lpc = "log"

L_Cancelled ==
    /\ Running /\ cancel_logger
    /\ LoggerCancellationPoint
    /\ lpc' = "terminated"
    /\ UNCHANGED << mainVars, exit_status, resVars, cfgVars, deadlineVars, pinVars, now, samplerVars,
                    entry, log, cancelVars, ringVars >>

(* ------------------------------ SIGINT ------------------------------- *)

\* SIGINT while its disposition is still the default: the process is killed.
SigInt_Default ==
    /\ Running /\ ~sigint_handler
    /\ exit_status' = "killed"
    /\ UNCHANGED << mainVars, resVars, cfgVars, deadlineVars, pinVars, now, samplerVars, loggerVars,
                    cancelVars, ringVars >>

\* sig_int: pthread_cancel(sampling_thread)
SigInt_CancelSampling ==
    /\ Running /\ sigint_handler /\ sigpc = "idle"
    /\ cancel_sampling' = TRUE
    /\ sigpc' = "cancel_logger"
    /\ UNCHANGED << mainVars, exit_status, resVars, cfgVars, deadlineVars, pinVars, now, samplerVars,
                    loggerVars, cancel_logger, ringVars >>

\* Mutant: the handler cancels the sampling thread only.
SigInt_CancelLogger_Forgets ==
    /\ Running /\ sigpc = "cancel_logger"
    /\ sigpc' = "idle"
    /\ UNCHANGED << mainVars, exit_status, resVars, cfgVars, deadlineVars, pinVars, now, samplerVars,
                    loggerVars, cancel_sampling, cancel_logger, ringVars >>

\* sig_int: pthread_cancel(logger_thread)
SigInt_CancelLogger ==
    /\ Running /\ sigpc = "cancel_logger"
    /\ cancel_logger' = TRUE
    /\ sigpc' = "idle"
    /\ UNCHANGED << mainVars, exit_status, resVars, cfgVars, deadlineVars, pinVars, now, samplerVars,
                    loggerVars, cancel_sampling, ringVars >>

Next ==
    \/ M_Parse
    \/ M_BcmInit
    \/ M_SpiBegin
    \/ M_SetupGpio
    \/ M_OpenLog
    \/ M_RingInitLock
    \/ M_CreateSampling
    \/ M_CreateLogger
    \/ M_Signal
    \/ M_JoinLogger
    \/ M_JoinSampling
    \/ M_Die
    \/ S_Sched
    \/ S_InitOpen
    \/ S_InitWait
    \/ S_InitClose
    \/ S_TakeSample
    \/ S_SampleError
    \/ S_Charging
    \/ S_CD_Wait
    \/ S_CD_Close
    \/ S_Discharging
    \/ S_Put
    \/ S_DC_Wait
    \/ S_DC_Close
    \/ S_Sleep
    \/ S_Cancelled
    \/ L_Sched
    \/ L_Get
    \/ L_Log
    \/ L_Cancelled
    \/ SigInt_Default
    \/ SigInt_CancelSampling
    \/ SigInt_CancelLogger

Spec == Init /\ [][Next]_vars

(* ----------------------- progress of the threads --------------------- *)

\* One run of the program with its arguments in order: -l 1 -u 2 -f 10 -o <file>.
LiveInit ==
    /\ Init
    /\ argv = [l |-> 1, u |-> 2, f |-> 10, complete |-> TRUE]
    /\ charge_level = 0 /\ discharge_level = 0

\* The steps main takes by itself once it is past signal(): the joins return when
\* the threads have terminated, then die(0).
MainStep == M_JoinLogger \/ M_JoinSampling \/ M_Die

\* The steps of the sampling thread that need the processor only.
SamplingStep ==
    \/ S_InitOpen \/ S_InitClose \/ S_TakeSample \/ S_SampleError \/ S_Charging
    \/ S_CD_Close \/ S_Discharging \/ S_Put \/ S_DC_Close

\* The steps of the logger thread.
LoggerStep == L_Get \/ L_Log

\* Every thread that can run does run (both workers are SCHED_FIFO threads that
\* block in every iteration), the handler runs to its end, and a cancellation
\* request that finds its thread at cancellation points again and again acts.
Fairness ==
    /\ WF_vars(MainStep)
    /\ WF_vars(SamplingStep)
    /\ WF_vars(LoggerStep)
    /\ WF_vars(SigInt_CancelLogger)
    /\ SF_vars(S_Cancelled)
    /\ WF_vars(L_Cancelled)

LiveSpec == LiveInit /\ [][Next]_vars /\ Fairness

(* ------------------- next_sampling_time by itself -------------------- *)

\* Normalized arguments of next_sampling_time: nanoseconds at both ends of the
\* range and around the carry.
NsecArgs == {0, 1, 250000000, 500000000, 999999999}
TlastArgs == {timespec(sec, nsec) : sec \in {0, 1}, nsec \in NsecArgs}
IntervalArgs == {timespec(0, nsec) : nsec \in NsecArgs \ {0}}
                   \cup {timespec(1, 0), frequency_to_interval(10)}

\* The sampling thread's tsample and sampling_interval hold arbitrary normalized
\* values; everything else is as at process start.
DeadlineInit ==
    /\ tsample \in TlastArgs
    /\ sampling_interval \in IntervalArgs
    /\ deadline_t0 = tsample
    /\ deadline_k = 0
    /\ mpc = "parse"
    /\ argv = [l |-> 1, u |-> 2, f |-> 10, complete |-> TRUE]
    /\ exit_status = "running"
    /\ fout = "NULL"
    /\ log = << >>
    /\ is_spi_open = FALSE
    /\ is_bcm_open = FALSE
    /\ sigint_handler = FALSE
    /\ sigpc = "idle"
    /\ gpio_output = FALSE
    /\ charge_level = 0
    /\ discharge_level = 0
    /\ threshold_lower = 0
    /\ threshold_upper = 0
    /\ now = ClockAt(StartNs)
    /\ spc = "not_created"
    /\ state = "charging"
    /\ epoch = 0
    /\ sample_v = 0
    /\ tnow = timespec(0, 0)
    /\ cancel_sampling = FALSE
    /\ lpc = "not_created"
    /\ entry = NoEntry
    /\ cancel_logger = FALSE
    /\ the_ring = << >>
    /\ produced = << >>
    /\ relay_hist = << >>
    /\ iter = [st |-> "charging", val |-> 0, base |-> 0, taken |-> FALSE]
    /\ cd_switches = 0

\* tsample = next_sampling_time(tsample, sampling_interval), as long as the
\* result stays below two seconds.
NextDeadline ==
    /\ deadline_k < MaxDeadlines
    /\ \/ tsample.tv_sec + sampling_interval.tv_sec = 0
       \/ /\ tsample.tv_sec + sampling_interval.tv_sec = 1
          /\ tsample.tv_nsec + sampling_interval.tv_nsec < NSEC_PER_SEC
    /\ tsample' = next_sampling_time(tsample, sampling_interval)
    /\ deadline_k' = deadline_k + 1
    /\ UNCHANGED << mainVars, exit_status, resVars, cfgVars, deadline_t0, pinVars, now, spc,
                    state, epoch, cd_switches, sample_v, tnow, relay_hist, iter,
                    loggerVars, cancelVars, ringVars >>

DeadlineSpec == DeadlineInit /\ [][NextDeadline]_vars

(* ------------------------------ claims ------------------------------- *)

Other(pin) == IF pin = "charge_pin" THEN "discharge_pin" ELSE "charge_pin"

\* The records put since the current iteration's sample was taken.
PutThisIteration == Len(produced) - iter.base

\* The sampling thread is past ring_put in the iteration of the current sample.
PastPut == spc \in {"sleep", "dc_wait", "dc_close", "sample"}

\* C1: once setup_gpio has configured the pins, and up to and after process exit,
\* the charge relay and the discharge relay are never both commanded closed.
C1_RelayMutex ==
    gpio_output => ~(charge_level = 1 /\ discharge_level = 1)

\* A full cycle was switched: charging again after a discharging phase, the charge
\* relay closed.
C1_Witness ==
    /\ gpio_output /\ epoch >= 1 /\ state = "charging" /\ spc = "sample"
    /\ charge_level = 1 /\ discharge_level = 0

\* C2: whenever the last relay command of the sampling thread closed a relay, the
\* two entries before it in the thread's order are the command that opened the
\* other relay and then one completed settle wait.
C2_BreakBeforeMake ==
    \A pin \in {"charge_pin", "discharge_pin"} :
        (Len(relay_hist) >= 1 /\ relay_hist[Len(relay_hist)] = Cmd("set", pin))
        => /\ Len(relay_hist) = 3
           /\ relay_hist[1] = Cmd("clr", Other(pin))
           /\ relay_hist[2] = SettleWait

\* The discharge relay was just closed at a switch to discharging.
C2_Witness ==
    /\ relay_hist = << Cmd("clr", "charge_pin"), SettleWait, Cmd("set", "discharge_pin") >>
    /\ discharge_level = 1 /\ epoch = 1

\* C3: a sample taken while charging, and an error sample, puts no record; a
\* non-error sample taken while discharging has put exactly one record, carrying
\* its value, once the thread is past ring_put; no sample puts more than one.
C3_DischargingOnlyLogging ==
    iter.taken =>
        /\ PutThisIteration \in {0, 1}
        /\ PutThisIteration = 1 =>
              /\ iter.st = "discharging" /\ iter.val # -1
              /\ produced[Len(produced)].value = iter.val
        /\ (iter.st = "discharging" /\ iter.val # -1 /\ PastPut) => PutThisIteration = 1

\* A discharging sample above the lower threshold has been recorded, after
\* charging samples were taken.
C3_Witness ==
    /\ iter.taken /\ iter.st = "discharging" /\ iter.val > threshold_lower
    /\ spc = "sleep" /\ PutThisIteration = 1
    /\ produced[Len(produced)].value = iter.val

\* C4 as claimed: a non-error sample at or below the lower threshold, read while
\* discharging, switches to charging and no record is put for it.
C4_NoRecordAtLowerThreshold ==
    (iter.taken /\ iter.st = "discharging" /\ iter.val # -1
        /\ iter.val <= threshold_lower /\ PastPut)
    => /\ state = "charging" /\ spc # "sleep"
       /\ PutThisIteration = 0

\* C4 amended: a non-error sample at or below the lower threshold, read while
\* discharging, switches to charging, and exactly one record carrying that
\* sample's value is put before the discharge relay is opened.
C4_RecordThenSwitch ==
    (iter.taken /\ iter.st = "discharging" /\ iter.val # -1
        /\ iter.val <= threshold_lower /\ PastPut)
    => /\ state = "charging" /\ spc # "sleep"
       /\ PutThisIteration = 1
       /\ produced[Len(produced)].value = iter.val

\* The switch back to charging is under way for a sample at the lower threshold.
C4_Witness ==
    /\ iter.taken /\ iter.st = "discharging" /\ iter.val # -1
    /\ iter.val <= threshold_lower
    /\ spc = "dc_wait" /\ state = "charging" /\ discharge_level = 0

EpochsNonDecreasing ==
    \A i, j \in 1..Len(produced) : i <= j => produced[i].epoch <= produced[j].epoch

\* The step that completes a switch from charging to discharging.
CD_Completes == spc = "cd_close" /\ spc' = "sample"

\* C5: the epochs of the records put are non-decreasing; the epoch counter changes
\* only in the step that completes a charging->discharging switch, and there it
\* grows by exactly 1.
C5_EpochMonotonic ==
    /\ []EpochsNonDecreasing
    /\ [][ /\ epoch' # epoch => CD_Completes
           /\ CD_Completes => epoch' = epoch + 1 ]_vars

\* Records of two different epochs were put.
C5_Witness ==
    /\ Len(produced) >= 2
    /\ produced[1].epoch = 1
    /\ produced[Len(produced)].epoch = 2
    /\ epoch = 2 /\ state = "charging"

\* The step in which the charging branch decides, and the step in which the
\* discharging branch decides (after ring_put returned).
ChargingDecides == spc = "decide" /\ spc' # "decide" /\ sample_v # -1 /\ state = "charging"
DischargingDecides == spc = "put" /\ spc' \notin {"put", "terminated"}

\* C6: while charging, a non-error sample switches to discharging iff it is >= the
\* upper threshold; while discharging, it switches to charging iff it is <= the
\* lower threshold; the state changes in no other step.
C6_ThresholdTieBreak ==
    [][ /\ ChargingDecides =>
              (state' = "discharging" <=> sample_v >= threshold_upper)
        /\ DischargingDecides =>
              (state' = "charging" <=> sample_v <= threshold_lower)
        /\ state' # state =>
              \/ ChargingDecides /\ sample_v >= threshold_upper
              \/ DischargingDecides /\ sample_v <= threshold_lower ]_vars

\* A sample exactly equal to the upper threshold has started the switch.
C6_Witness ==
    /\ spc = "cd_wait" /\ state = "discharging"
    /\ sample_v = threshold_upper /\ iter.st = "charging"

NoErrorValueRecorded ==
    /\ \A i \in 1..Len(produced) : produced[i].value # -1
    /\ \A i \in 1..Len(the_ring) : the_ring[i].value # -1
    /\ \A i \in 1..Len(log) : log[i][3] # -1

\* C7: no record put, held in the channel or written has value -1; and while the
\* sampling thread handles a reading of -1 nothing is put, the state and the epoch
\* keep their values and no relay command is issued.
C7_ErrorSentinel ==
    /\ []NoErrorValueRecorded
    /\ [][ (spc = "decide" /\ sample_v = -1) =>
              /\ spc' \in {"decide", "sample", "terminated"}
              /\ produced' = produced
              /\ state' = state /\ epoch' = epoch
              /\ charge_level' = charge_level /\ discharge_level' = discharge_level
              /\ relay_hist' = relay_hist ]_vars

\* An error reading taken while discharging has been handled.
C7_Witness ==
    /\ iter.taken /\ iter.val = -1 /\ iter.st = "discharging"
    /\ spc = "sample" /\ state = "discharging" /\ PutThisIteration = 0

\* C8 as claimed: after a reading of -1 the thread advances the deadline by one
\* sampling period and sleeps until it before it takes the next sample.
C8_ErrorKeepsCadence ==
    [][ (spc = "decide" /\ sample_v = -1 /\ spc' \notin {"decide", "terminated"}) =>
           /\ spc' = "sleep"
           /\ tsample' = next_sampling_time(tsample, sampling_interval) ]_vars

\* The lines written are those of the first records put, in the order they were put.
LogIsPrefixOfProduced ==
    /\ Len(log) <= Len(produced)
    /\ \A i \in 1..Len(log) :
          log[i] = << produced[i].timestamp, produced[i].epoch, produced[i].value >>

\* C9: at every point the lines written to the log are a prefix of the records put
\* into the channel, in the same order.
C9_Fifo == LogIsPrefixOfProduced

\* Two different records were put and both were written.
C9_Witness ==
    /\ Len(log) >= 2
    /\ log[1] # log[2]
    /\ Len(produced) > Len(log)

\* C10 as claimed, for the exit through die(0) after SIGINT: every record put was
\* written exactly once, so as many lines were written as records were put.
C10_NoLossAtExit ==
    /\ LogIsPrefixOfProduced
    /\ exit_status = "success" => Len(log) = Len(produced)


\* The sampling thread is inside a relay transition: one relay has been commanded
\* open and the other has not been commanded closed yet.
InTransition(pc) == pc \in {"init_wait", "init_close", "cd_wait", "cd_close",
                            "dc_wait", "dc_close"}

\* C11 (as stated; violated): a cancellation never ends the sampling thread
\* between the command that opens one relay and the command that closes the
\* other.  The settle wait is a clock_nanosleep, where a pending request acts.
C11_NoCancelInsideTransition ==
    [][spc' = "terminated" /\ spc # "terminated" => ~InTransition(spc)]_vars

\* Both worker threads have been created (the logger thread is created second).
BothCreated == lpc # "not_created"

\* Both worker threads have terminated.
WorkersTerminated == spc = "terminated" /\ lpc = "terminated"

\* die() has run: the log sink is closed and the process has exited.
TornDown == exit_status \in {"success", "failure"}

\* C12 (as stated; violated): once both worker threads exist, die() tears down
\* and exits only after both have terminated.  die(-1) is also called by a worker
\* whose sched_setscheduler fails and by main when signal() fails.
C12_TeardownAfterWorkers == BothCreated /\ TornDown => WorkersTerminated

\* C12 (amended): the teardown of the normal path, die(0) called by main after
\* the two joins, happens only after both worker threads have terminated.
C12_NormalTeardownAfterWorkers ==
    /\ exit_status = "success" => WorkersTerminated /\ fout = "closed"
    /\ mpc = "die" => WorkersTerminated

\* The process has exited with status 0 after the logger wrote a record.
C12_Witness == exit_status = "success" /\ Len(log) >= 1 /\ WorkersTerminated

\* SIGINT has been delivered to the installed handler, which has sent (or is about
\* to send) both requests, and both workers are past sched_setscheduler.
SigIntDelivered ==
    /\ sigint_handler /\ cancel_sampling
    /\ spc \notin {"not_created", "sched"}
    /\ lpc \notin {"not_created", "sched"}

\* C13: once the handler is installed, a SIGINT delivered in any state of the two
\* worker threads leads to both threads terminating, the joins returning, the
\* resources being released and the process exiting with status 0.
C13_GracefulShutdown ==
    SigIntDelivered ~> (exit_status = "success" /\ WorkersTerminated /\ fout = "closed")

\* The process has exited with status 0 after a SIGINT that found the sampling
\* thread past its first switch to discharging.
C13_Witness ==
    /\ exit_status = "success" /\ cancel_sampling /\ cancel_logger
    /\ epoch >= 1 /\ Len(produced) >= 1

\* The arguments hold a configuration error: a required argument is missing, the
\* thresholds are not lower < upper, or the frequency is not positive.
ConfigError == ~argv.complete \/ ~(argv.l < argv.u) \/ ~(argv.f > 0)

\* Bus or relay activity has begun, or a worker thread exists.
CoreStarted ==
    \/ is_bcm_open \/ is_spi_open \/ gpio_output
    \/ spc # "not_created" \/ lpc # "not_created"

\* C14 (as stated; violated): with a configuration error the process never gets
\* past the argument check: no bus or relay activity, no worker thread, and the
\* process does not end with status 0.  main checks the presence of the arguments
\* only.
C14_ConfigErrorStopsStart ==
    ConfigError => /\ ~CoreStarted
                   /\ mpc = "parse"
                   /\ exit_status # "success"

\* The step that ends a transition: the close command of the other relay.
CD_CloseStep == spc = "cd_close" /\ spc' = "sample"
DC_CloseStep == spc = "dc_close" /\ spc' = "sample"

\* The step that computes the first deadline after tsample was read from the clock.
FirstDeadlineStep == deadline_k = 0 /\ deadline_k' = 1

\* C15 (as stated; violated): at the end of every transition, in both directions,
\* tsample is reset to the current monotonic time.  The switch back to charging
\* has no clock_gettime(&tsample).
C15_BaselineResetBothWays ==
    [][CD_CloseStep \/ DC_CloseStep => tsample' = now']_vars

\* C15 (amended): the switch to discharging resets tsample to the current time,
\* and the first deadline computed after it is exactly one period later; the
\* switch back to charging leaves tsample as it is.
C15_BaselineResetOnDischarge ==
    [][/\ CD_CloseStep => tsample' = now'
       /\ DC_CloseStep => tsample' = tsample
       /\ FirstDeadlineStep /\ state = "discharging" =>
              to_nanosec(tsample') = to_nanosec(deadline_t0) + to_nanosec(sampling_interval)
      ]_vars

\* Back in charging after a full cycle, with a baseline that is older than the
\* end of the transition; and the deadline then computed from it lies in the past.
C15_Witness ==
    /\ state = "charging" /\ cd_switches >= 1
    /\ spc = "sleep" /\ iter.st = "charging"
    /\ relay_hist[Len(relay_hist)] = Cmd("set", DC_ClosePin)
    /\ ~TimeLeq(now, tsample)

\* C16 (as stated; violated): while the sampling thread is between the open and
\* the close command of a transition, no sample is taken and the logger thread
\* writes no record.  The logger is a thread of its own and runs in the settle
\* wait.
C16_TransitionExcludesSamplingAndLog ==
    [][InTransition(spc) =>
          /\ sample_v' = sample_v /\ iter' = iter /\ tnow' = tnow
          /\ log' = log]_vars

\* C16 (amended): while the sampling thread is between the open and the close
\* command of a transition, it takes no sample and puts no record into the
\* channel.
C16_TransitionExcludesSamplingAndPut ==
    [][InTransition(spc) =>
          /\ sample_v' = sample_v /\ iter' = iter /\ tnow' = tnow
          /\ produced' = produced]_vars

\* The sampling thread is in the settle wait of a switch back to charging while
\* the logger is about to write the record that was put just before it.
C16_Witness ==
    /\ spc = "dc_wait" /\ lpc = "log"
    /\ Len(produced) >= 1 /\ entry = produced[Len(produced)]

\* t is normalized: 0 <= tv_nsec < 10^9.
Normalized(t) == 0 <= t.tv_nsec /\ t.tv_nsec < NSEC_PER_SEC

\* C17: from normalized arguments next_sampling_time gives a normalized result
\* that is the exact sum in nanoseconds, so the k-th deadline computed from a
\* baseline t0 without a reset is t0 + k * period.
C17_DeadlineArithmetic ==
    /\ Normalized(tsample)
    /\ to_nanosec(tsample) =
           to_nanosec(deadline_t0) + deadline_k * to_nanosec(sampling_interval)

\* A second deadline that lies past a carry into the seconds.
C17_Witness ==
    /\ deadline_k >= 2
    /\ tsample.tv_sec = deadline_t0.tv_sec + 1
    /\ tsample.tv_nsec < deadline_t0.tv_nsec

\* Exactly one relay is commanded closed, and it is the one the state names.
RelaysMatchState ==
    \/ state = "charging" /\ charge_level = 1 /\ discharge_level = 0
    \/ state = "discharging" /\ discharge_level = 1 /\ charge_level = 0

\* C18: whenever the loop is about to call get_sample_singleended, exactly one
\* relay is commanded closed, the charge relay iff the state is charging; state
\* and relays disagree only inside a transition, where no sample is taken.
C18_SampleWithMatchingRelay ==
    /\ spc = "sample" => RelaysMatchState
    /\ spc \in {"decide", "put", "sleep"} => RelaysMatchState
    /\ InTransition(spc) => ~RelaysMatchState

\* About to sample in the charging state of the second cycle, charge relay closed.
C18_Witness ==
    /\ spc = "sample" /\ state = "charging" /\ cd_switches >= 1
    /\ charge_level = 1 /\ discharge_level = 0

\* No record put, taken or written carries epoch 0 or an epoch beyond the
\* switches to discharging completed so far.
RecordEpochsInRange ==
    /\ \A i \in 1..Len(produced) :
          produced[i].epoch >= 1 /\ produced[i].epoch <= cd_switches
    /\ \A i \in 1..Len(log) : log[i][2] >= 1 /\ log[i][2] <= cd_switches

\* C19: every record put into the channel carries the number of switches from
\* charging to discharging completed so far, which is at least 1; no record and
\* no log line has epoch 0.
C19_EpochCountsSwitches ==
    /\ []RecordEpochsInRange
    /\ [][produced' # produced =>
             /\ produced'[Len(produced')].epoch = cd_switches
             /\ cd_switches >= 1]_vars

\* A record of the second discharging phase has been put and the first phase's
\* record written.
C19_Witness ==
    /\ Len(produced) >= 2 /\ produced[Len(produced)].epoch = 2
    /\ Len(log) >= 1 /\ log[1][2] = 1

\* A step of sig_int, of die() or of the default action of SIGINT.
ShutdownStep ==
    \/ exit_status' # exit_status
    \/ cancel_sampling' # cancel_sampling \/ cancel_logger' # cancel_logger
    \/ sigpc' # sigpc

\* A step of setup_gpio or of a relay command of the sampling thread.
RelayCommandStep ==
    \/ mpc = "gpio" /\ mpc' # mpc
    \/ /\ spc \in {"init_open", "init_close", "decide", "put", "cd_close", "dc_close"}
       /\ spc' # spc /\ spc' # "terminated"

\* C20: neither sig_int nor die() issues a relay command, and nothing changes the
\* relay outputs once the process has exited: at exit each output holds the level
\* last commanded by the sampling thread, or by setup_gpio.
C20_ShutdownKeepsRelays ==
    [][/\ ShutdownStep \/ exit_status # "running" => UNCHANGED pinVars
       /\ pinVars' # pinVars => RelayCommandStep]_vars

\* The process has exited with status 0 and left the discharge relay closed.
C20_Witness ==
    exit_status = "success" /\ discharge_level = 1 /\ charge_level = 0

============================================================================
